---- MODULE Spec2Model ----
(***************************************************************************)
(* LLM-List JS SDK: the registry module (index.js in its two published     *)
(* shapes, the https-only one and the fetch/https one), the LLMRegistry    *)
(* class with its accessors and its static fetch(), and the registry       *)
(* synchronisation script.                                                 *)
(*                                                                         *)
(* Texts (file contents, HTTP bodies) are sequences of tokens; JSON.parse  *)
(* is computed on the token sequence.  JavaScript values that an accessor  *)
(* can return are tagged records [t |-> type, v |-> payload].              *)
(***************************************************************************)
EXTENDS Integers, Sequences, FiniteSets, TLC

VARIABLES
    impl,           \* which index.js is loaded: "index" (src/index.js) or "unnamed" (src/unnamed/part_000)
    env,            \* runtime: "node-https", "node-fetch", "browser", "none"
    rootFile,       \* content of ../../llm_registry.json, or NoFile
    localFile,      \* content of ./llm_registry.json, or NoFile
    fileMode,       \* st_mode of the local file, 0 when it does not exist
    modPhase,       \* "init" before the module body ran, "loaded" after
    localRegistry,  \* module-level `let localRegistry`
    warnings,       \* console.warn lines emitted so far (a set of tags)
    handles,        \* the LLMRegistry objects constructed so far; handles[1] is module.exports
    ret,            \* outcome of the last accessor call
    fch,            \* the LLMRegistry.fetch() call in flight (or the last one)
    sy              \* the run of scripts/sync_registry.js

vars == <<impl, env, rootFile, localFile, fileMode, modPhase, localRegistry,
          warnings, handles, ret, fch, sy>>

sdkVars  == <<impl, env, rootFile, modPhase, localRegistry, warnings, handles, ret, fch>>

----------------------------------------------------------------------------
(* Bounds *)

\* longest providers array of a document passed to the constructor
MaxProviders == 2
\* longest providers array of a document served over HTTP
MaxBodyProviders == 1
\* number of LLMRegistry objects built with `new` besides module.exports
MaxHandles == 1

----------------------------------------------------------------------------
(* JavaScript values *)

Null      == [t |-> "null"]
Undefined == [t |-> "undefined"]
Arr(s)    == [t |-> "array", v |-> s]
Str(s)    == [t |-> "string", v |-> s]
Obj(o)    == [t |-> "object", v |-> o]

\* new Error(`Provider with ID '${providerId}' not found.`)
ProviderNotFound(id) == [t |-> "Error", msg |-> "Provider not found", id |-> id]
\* what the engine throws for null.providers / undefined.find
TypeErrorOf(what)    == [t |-> "TypeError", msg |-> what]

----------------------------------------------------------------------------
(* Registry documents *)

ProvTokens == {"a", "b", "c"}

\* "a" is the provider of the documented scenario; "b" repeats its id with
\* other fields; "c" has neither models, website nor auth.
ProviderOf(tok) ==
    CASE tok = "a" -> [id |-> "openai", website |-> "https://openai.com",
                       models |-> <<[id |-> "gpt-4", name |-> "GPT-4"]>>]
      [] tok = "b" -> [id |-> "openai", models |-> <<>>,
                       api_config |-> [auth |-> [type |-> "bearer"]]]
      [] OTHER     -> [id |-> "anthropic", api_config |-> [base_url |-> "https://api.anthropic.com"]]

Ids == {"openai", "anthropic", "nonexistent"}

\* sequences over S of length at most n that repeat no element
SeqsUpTo(S, n) ==
    {q \in UNION {[1..k -> S] : k \in 0..n} :
        \A i \in DOMAIN q, j \in DOMAIN q : q[i] = q[j] => i = j}

\* the text {"providers":[ ... ]}
DocText(ps) == <<"{">> \o ps \o <<"}">>

WellFormedTexts(n) == {DocText(ps) : ps \in SeqsUpTo(ProvTokens, n)}

Prefixes(t) == {SubSeq(t, 1, k) : k \in 0..Len(t)}

\* what a server may send: a registry text, a cut-off one, JSON that is not
\* a registry ("null", an object without providers), or garbage
BodyTexts == UNION {Prefixes(t) : t \in WellFormedTexts(MaxBodyProviders)}
               \cup {<<"null">>, <<"{}">>, <<"}">>}

NoFile == <<"ENOENT">>
LocalTexts == {DocText(<<"c", "a">>), <<"{", "a">>}
RootTexts  == {DocText(<<"b">>), <<"{", "b">>}

SyntaxError == [t |-> "SyntaxError"]

\* JSON.parse
JSONparse(text) ==
    IF text = <<"null">> THEN Null
    ELSE IF text = <<"{}">> THEN [version |-> "1"]
    ELSE IF /\ Len(text) >= 2
            /\ text[1] = "{"
            /\ text[Len(text)] = "}"
            /\ \A i \in 2..(Len(text) - 1) : text[i] \in ProvTokens
         THEN [providers |-> [i \in 1..(Len(text) - 2) |-> ProviderOf(text[i + 1])]]
         ELSE SyntaxError

IsValidJSONText(text) == JSONparse(text) # SyntaxError

HasProviders(reg) == "providers" \in DOMAIN reg

\* documents a caller may pass to `new LLMRegistry(data)`
Docs == {JSONparse(t) : t \in WellFormedTexts(MaxProviders)} \cup {[version |-> "1"]}

----------------------------------------------------------------------------
(* The module body: loading the local registry *)

IsFalsy(v) == v \in {Null, Undefined}

\* st_mode values of a regular file (0o100644, 0o100600)
FileModes == {33188, 33152}

Impls == {"index", "unnamed"}

\* index.js requires 'https' at its top and runs under Node only; the
\* fetch/https variant also loads in a browser or in a bare runtime.
EnvsOf(i) == IF i = "index" THEN {"node-https"}
             ELSE {"node-https", "node-fetch", "browser", "none"}

IsNode(e) == e \in {"node-https", "node-fetch"}

\* the registry the module body leaves in localRegistry, and whether the
\* catch block ran, given the local file as it is when it is read
LoadLocalBroken(file, readOk) ==
    IF file = NoFile THEN [reg |-> Null, caught |-> FALSE]
    ELSE IF ~readOk THEN [reg |-> Null, caught |-> TRUE]
    ELSE IF JSONparse(file) = SyntaxError
         THEN [reg |-> [providers |-> <<>>], caught |-> FALSE]
         ELSE [reg |-> JSONparse(file), caught |-> FALSE]

LoadLocal(file, readOk) ==
    IF file = NoFile THEN [reg |-> Null, caught |-> FALSE]
    ELSE IF ~readOk \/ JSONparse(file) = SyntaxError
         THEN [reg |-> Null, caught |-> TRUE]
         ELSE [reg |-> JSONparse(file), caught |-> FALSE]

\* new LLMRegistry(data), with the module's localRegistry `local`.
\* `given` records the constructor's argument.
ConstructorLocalFirst(data, local) ==
    [registry |-> IF IsFalsy(local) THEN data ELSE local, given |-> data]

Constructor(data, local) ==
    [registry |-> IF IsFalsy(data) THEN local ELSE data, given |-> data]

CtorWarning(h) == IF IsFalsy(h.registry) THEN {"no-registry"} ELSE {}

\* The whole module body, up to module.exports = new LLMRegistry().
\* syncOk: the copy from the project root succeeds; readOk: reading the
\* local file (or, in a bundle, require('fs')) succeeds.
LoadModule ==
    /\ modPhase = "init"
    /\ \E syncOk \in BOOLEAN, readOk \in BOOLEAN, m \in FileModes :
        LET synced   == impl = "index" /\ rootFile # NoFile /\ syncOk
            syncFail == impl = "index" /\ rootFile # NoFile /\ ~syncOk
            file     == IF synced THEN rootFile ELSE localFile
            loaded   == IF impl = "unnamed" /\ ~IsNode(env)
                        THEN [reg |-> Null, caught |-> FALSE]
                        ELSE LoadLocal(file, readOk)
            dflt     == Constructor(Undefined, loaded.reg)
        IN  /\ (rootFile = NoFile \/ impl # "index") => syncOk
            /\ (file = NoFile \/ (impl = "unnamed" /\ ~IsNode(env))) => readOk
            /\ (synced /\ localFile = NoFile) \/ m = 33188
            /\ localFile' = file
            /\ fileMode' = IF synced /\ localFile = NoFile THEN m
                           ELSE fileMode
            /\ localRegistry' = loaded.reg
            /\ warnings' = warnings
                   \cup (IF syncFail THEN {"sync-failed"} ELSE {})
                   \cup (IF loaded.caught /\ impl = "index" THEN {"load-failed"} ELSE {})
                   \cup CtorWarning(dflt)
            /\ handles' = <<dflt>>
    /\ modPhase' = "loaded"
    /\ UNCHANGED <<impl, env, rootFile, ret, fch, sy>>

\* new LLMRegistry(data) called by a client
Construct(data) ==
    /\ modPhase = "loaded"
    /\ Len(handles) < MaxHandles + 1
    /\ LET h == Constructor(data, localRegistry)
       IN  /\ handles' = Append(handles, h)
           /\ warnings' = warnings \cup CtorWarning(h)
    /\ UNCHANGED <<impl, env, rootFile, localFile, fileMode, modPhase,
                   localRegistry, ret, fch, sy>>

----------------------------------------------------------------------------
(* The accessors.  Each is an operator from (variant, this.registry, id)   *)
(* to its outcome: a returned value or a thrown error.                     *)

Return(v) == [kind |-> "return", value |-> v]
Throw(e)  == [kind |-> "throw", value |-> e]

\* Array.prototype.find(p => p.id === providerId): index of the first
\* match, 0 for undefined
FindLast(providers, id) ==
    LET hits == {i \in 1..Len(providers) : providers[i].id = id}
    IN  IF hits = {} THEN 0 ELSE CHOOSE i \in hits : \A j \in hits : j <= i

Find(providers, id) ==
    LET hits == {i \in 1..Len(providers) : providers[i].id = id}
    IN  IF hits = {} THEN 0 ELSE CHOOSE i \in hits : \A j \in hits : i <= j

\* this.registry.providers.find(...) and the not-found check shared by the
\* three id-keyed accessors: the provider found, or the error thrown
LookupNoThrow(reg, id) ==
    IF reg = Null THEN Throw(TypeErrorOf("Cannot read properties of null"))
    ELSE IF ~HasProviders(reg) THEN Throw(TypeErrorOf("Cannot read properties of undefined"))
    ELSE LET i == Find(reg.providers, id)
         IN  IF i = 0 THEN Return(Undefined)
             ELSE [kind |-> "found", value |-> reg.providers[i]]

Lookup(reg, id) ==
    IF reg = Null THEN Throw(TypeErrorOf("Cannot read properties of null"))
    ELSE IF ~HasProviders(reg) THEN Throw(TypeErrorOf("Cannot read properties of undefined"))
    ELSE LET i == Find(reg.providers, id)
         IN  IF i = 0 THEN Throw(ProviderNotFound(id))
             ELSE [kind |-> "found", value |-> reg.providers[i]]

\* provider.models || []
ModelsOf(p) == IF "models" \in DOMAIN p THEN Arr(p.models) ELSE Arr(<<>>)
\* provider.website
WebsiteOf(p) == IF "website" \in DOMAIN p THEN Str(p.website) ELSE Undefined
\* provider.api_config && provider.api_config.auth ? provider.api_config.auth : null
AuthOf(p) == IF "api_config" \in DOMAIN p /\ "auth" \in DOMAIN p.api_config
             THEN Obj(p.api_config.auth) ELSE Null

GetProvidersDropFirst(i, reg) ==
    IF reg = Null THEN Return(Arr(<<>>))
    ELSE IF HasProviders(reg)
         THEN Return(Arr(IF reg.providers = <<>> THEN <<>> ELSE Tail(reg.providers)))
         ELSE Return(Arr(<<>>))

GetProviders(i, reg) ==
    IF i = "index"
    THEN \* return this.registry.providers
         IF reg = Null THEN Throw(TypeErrorOf("Cannot read properties of null"))
         ELSE IF HasProviders(reg) THEN Return(Arr(reg.providers)) ELSE Return(Undefined)
    ELSE \* return this.registry && this.registry.providers ? this.registry.providers : []
         IF reg # Null /\ HasProviders(reg) THEN Return(Arr(reg.providers))
         ELSE Return(Arr(<<>>))

GetProviderModels(i, reg, id) ==
    IF i = "unnamed" /\ reg = Null THEN Return(Arr(<<>>))
    ELSE LET r == Lookup(reg, id)
         IN  IF r.kind = "found" THEN Return(ModelsOf(r.value)) ELSE r

GetProviderWebsite(i, reg, id) ==
    IF i = "unnamed" /\ reg = Null THEN Return(Null)
    ELSE LET r == Lookup(reg, id)
         IN  IF r.kind = "found" THEN Return(WebsiteOf(r.value)) ELSE r

GetProviderAuth(i, reg, id) ==
    IF i = "unnamed" /\ reg = Null THEN Return(Null)
    ELSE LET r == Lookup(reg, id)
         IN  IF r.kind = "found" THEN Return(AuthOf(r.value)) ELSE r

NoCall == [op |-> "none"]

CallGetProviders(h) ==
    /\ modPhase = "loaded"
    /\ h \in 1..Len(handles)
    /\ ret' = [op |-> "getProviders", h |-> h, id |-> "",
               out |-> GetProviders(impl, handles[h].registry)]
    /\ UNCHANGED <<impl, env, rootFile, localFile, fileMode, modPhase,
                   localRegistry, warnings, handles, fch, sy>>

CallGetProviderModels(h, id) ==
    /\ modPhase = "loaded"
    /\ h \in 1..Len(handles)
    /\ ret' = [op |-> "getProviderModels", h |-> h, id |-> id,
               out |-> GetProviderModels(impl, handles[h].registry, id)]
    /\ UNCHANGED <<impl, env, rootFile, localFile, fileMode, modPhase,
                   localRegistry, warnings, handles, fch, sy>>

CallGetProviderWebsite(h, id) ==
    /\ modPhase = "loaded"
    /\ h \in 1..Len(handles)
    /\ ret' = [op |-> "getProviderWebsite", h |-> h, id |-> id,
               out |-> GetProviderWebsite(impl, handles[h].registry, id)]
    /\ UNCHANGED <<impl, env, rootFile, localFile, fileMode, modPhase,
                   localRegistry, warnings, handles, fch, sy>>

CallGetProviderAuth(h, id) ==
    /\ modPhase = "loaded"
    /\ h \in 1..Len(handles)
    /\ ret' = [op |-> "getProviderAuth", h |-> h, id |-> id,
               out |-> GetProviderAuth(impl, handles[h].registry, id)]
    /\ UNCHANGED <<impl, env, rootFile, localFile, fileMode, modPhase,
                   localRegistry, warnings, handles, fch, sy>>

----------------------------------------------------------------------------
(* static async fetch(url)                                                 *)
(* The call and the events of its request: the response callback, 'data',  *)
(* 'end', the request's 'error', and the connection closing before 'end'   *)
(* (Node then emits 'aborted'/'close' on the response, for which no        *)
(* listener is registered, and no 'error' on the request).                 *)

Statuses == {200, 204, 404}

\* response.ok
IsOk(status) == status >= 200 /\ status <= 299

\* new Error(`Failed to parse registry JSON: ${error.message}`)
ParseFailed == [t |-> "Error", msg |-> "Failed to parse registry JSON", cause |-> "parse"]
\* new Error(`Failed to fetch registry: ${err.message}`)
FetchFailed(cause) == [t |-> "Error", msg |-> "Failed to fetch registry", cause |-> cause]
\* new Error(`HTTP error! status: ${res.statusCode}`)
HttpError == [t |-> "Error", msg |-> "HTTP error! status", cause |-> "http"]
\* new Error('Environment not supported: ...')
EnvError == [t |-> "Error", msg |-> "Environment not supported", cause |-> "env"]

\* which branch of fetch() runs
FetchPath(i, e) ==
    IF i = "index" THEN "index"
    ELSE IF e \in {"node-fetch", "browser"} THEN "native"
    ELSE IF e = "node-https" THEN "https"
    ELSE "unsupported"

IdleCall == [phase |-> "idle", status |-> 0, body |-> <<>>, sent |-> 0, data |-> <<>>,
             promise |-> "none", value |-> Null, calls |-> 0]

\* resolve(v) / reject(v): only the first call settles the promise
Settle(f, how, v) ==
    IF f.promise = "pending"
    THEN [f EXCEPT !.promise = how, !.value = v, !.calls = @ + 1]
    ELSE [f EXCEPT !.calls = @ + 1]

\* the response callback (https paths), or `await fetch(url)` returning
OnResponse(path, f, status, body) ==
    LET got == [f EXCEPT !.status = status, !.body = body]
    IN  CASE path = "https" /\ status # 200 ->
               Settle([got EXCEPT !.phase = "discarding"], "rejected", HttpError)
          [] path = "native" /\ ~IsOk(status) ->
               Settle([got EXCEPT !.phase = "discarding"], "rejected", FetchFailed("http"))
          [] OTHER -> [got EXCEPT !.phase = "receiving"]

\* res.on('data', chunk => data += chunk); res.resume() drops the chunk
OnData(f) ==
    IF f.phase = "receiving"
    THEN [f EXCEPT !.sent = @ + 1, !.data = Append(@, f.body[f.sent + 1])]
    ELSE [f EXCEPT !.sent = @ + 1]

\* res.on('end', ...), or response.json() completing
OnEnd(path, f, local) ==
    IF f.phase # "receiving" THEN [f EXCEPT !.phase = "ended"]
    ELSE LET json == JSONparse(f.data)
             done == [f EXCEPT !.phase = "ended"]
         IN  IF json = SyntaxError
             THEN Settle(done, "rejected",
                         IF path = "native" THEN FetchFailed("parse") ELSE ParseFailed)
             ELSE Settle(done, "resolved", Constructor(json, local))

\* .on('error', err => reject(...)), or the awaited fetch()/json() failing
OnReqError(path, f) ==
    Settle([f EXCEPT !.phase = "errored"], "rejected", FetchFailed("network"))

\* The connection closes after the response began and before 'end'.
\* Native fetch: the awaited response.json() rejects.  https: the response
\* emits 'aborted' and 'close', which nobody listens to; Node releases
\* that destroy the response stop there, older ones still push the end of
\* the stream, so that the 'end' listener runs on the data received so far
\* (endFires).
OnClose(path, f, endFires, local) ==
    IF path = "native"
    THEN Settle([f EXCEPT !.phase = "closed"], "rejected", FetchFailed("network"))
    ELSE IF endFires
         THEN [OnEnd(path, f, local) EXCEPT !.phase = "closed"]
         ELSE [f EXCEPT !.phase = "closed"]

FetchWarning(f) ==
    IF f.promise = "resolved" THEN CtorWarning(f.value) ELSE {}

FetchCall ==
    /\ modPhase = "loaded"
    /\ fch.phase = "idle"
    /\ fch' = IF FetchPath(impl, env) = "unsupported"
              THEN [fch EXCEPT !.phase = "errored", !.promise = "rejected",
                               !.value = EnvError]
              ELSE [fch EXCEPT !.phase = "requested", !.promise = "pending"]
    /\ UNCHANGED <<impl, env, rootFile, localFile, fileMode, modPhase,
                   localRegistry, warnings, handles, ret, sy>>

FetchResponse(status, body) ==
    /\ fch.phase = "requested"
    /\ fch' = OnResponse(FetchPath(impl, env), fch, status, body)
    /\ UNCHANGED <<impl, env, rootFile, localFile, fileMode, modPhase,
                   localRegistry, warnings, handles, ret, sy>>

FetchData ==
    /\ fch.phase \in {"receiving", "discarding"}
    /\ fch.sent < Len(fch.body)
    /\ fch' = OnData(fch)
    /\ UNCHANGED <<impl, env, rootFile, localFile, fileMode, modPhase,
                   localRegistry, warnings, handles, ret, sy>>

\* FetchEnd with a catch block that also forgets the cached registry
FetchEndResetsLocal ==
    /\ fch.phase \in {"receiving", "discarding"}
    /\ fch.sent = Len(fch.body)
    /\ fch' = OnEnd(FetchPath(impl, env), fch, localRegistry)
    /\ warnings' = warnings \cup (IF fch.promise = "pending" THEN FetchWarning(fch') ELSE {})
    /\ localRegistry' = IF fch.phase = "receiving" /\ JSONparse(fch.data) = SyntaxError
                        THEN Null ELSE localRegistry
    /\ UNCHANGED <<impl, env, rootFile, localFile, fileMode, modPhase,
                   handles, ret, sy>>

FetchEnd ==
    /\ fch.phase \in {"receiving", "discarding"}
    /\ fch.sent = Len(fch.body)
    /\ fch' = OnEnd(FetchPath(impl, env), fch, localRegistry)
    /\ warnings' = warnings \cup (IF fch.promise = "pending" THEN FetchWarning(fch') ELSE {})
    /\ UNCHANGED <<impl, env, rootFile, localFile, fileMode, modPhase,
                   localRegistry, handles, ret, sy>>

FetchReqError ==
    /\ fch.phase \in {"requested", "receiving", "discarding"}
    /\ fch' = OnReqError(FetchPath(impl, env), fch)
    /\ UNCHANGED <<impl, env, rootFile, localFile, fileMode, modPhase,
                   localRegistry, warnings, handles, ret, sy>>

FetchClose ==
    /\ fch.phase \in {"receiving", "discarding"}
    /\ \E endFires \in BOOLEAN :
        /\ (FetchPath(impl, env) = "native" \/ fch.phase = "discarding") => ~endFires
        /\ fch' = OnClose(FetchPath(impl, env), fch, endFires, localRegistry)
    /\ warnings' = warnings \cup (IF fch.promise = "pending" THEN FetchWarning(fch') ELSE {})
    /\ UNCHANGED <<impl, env, rootFile, localFile, fileMode, modPhase,
                   localRegistry, handles, ret, sy>>

----------------------------------------------------------------------------
(* scripts/sync_registry.js                                                *)
(* main() awaits fetchRemoteFile(); its continuation runs in the microtask *)
(* that follows resolve()/reject(), so each event handler below includes   *)
(* the part of main() it triggers.                                         *)

IdleSync == [phase |-> "idle", status |-> 0, body |-> <<>>, sent |-> 0, data |-> <<>>,
             outcome |-> "none", exit |-> -1, wrote |-> FALSE,
             aborted |-> FALSE, before |-> NoFile, modeBefore |-> 0]

\* isValidJSON(content): JSON.parse in a try block
IsValidJSONAlways(content) == TRUE

IsValidJSON(content) == JSONparse(content) # SyntaxError

\* getFileMode(filePath): stats.mode, or null (written 0) without a file
GetFileMode(file, mode) == IF file # NoFile THEN mode ELSE 0

\* main() from step 2 on, once the download resolved with `content`.
\* writeOk: fs.writeFileSync succeeds; newMode: the mode a created file gets.
MainAfterDownload(content, file, mode, writeOk, newMode) ==
    IF ~IsValidJSON(content)
    THEN [file |-> file, mode |-> mode, exit |-> 1, wrote |-> FALSE, outcome |-> "invalid"]
    ELSE LET originalMode == GetFileMode(file, mode)
         IN  IF ~writeOk
             THEN [file |-> file, mode |-> mode, exit |-> 1, wrote |-> FALSE,
                   outcome |-> "writefail"]
             ELSE LET written  == content
                      created  == IF file = NoFile THEN newMode ELSE mode
                      restored == IF originalMode # 0 THEN originalMode ELSE created
                  IN  IF written = content
                      THEN [file |-> written, mode |-> restored, exit |-> 0,
                            wrote |-> TRUE, outcome |-> "synced"]
                      ELSE [file |-> written, mode |-> restored, exit |-> 1,
                            wrote |-> TRUE, outcome |-> "verifyfail"]

SyncStart ==
    /\ sy.phase = "idle"
    /\ sy' = [sy EXCEPT !.phase = "requested", !.before = localFile,
                        !.modeBefore = fileMode]
    /\ UNCHANGED <<sdkVars, localFile, fileMode>>

\* the response callback: a status other than 200 rejects, main() catches
\* and calls process.exit(1)
SyncResponse(status, body) ==
    /\ sy.phase = "requested"
    /\ sy' = IF status # 200
             THEN [sy EXCEPT !.phase = "exited", !.status = status, !.body = body,
                             !.outcome = "non200", !.exit = 1]
             ELSE [sy EXCEPT !.phase = "receiving", !.status = status, !.body = body]
    /\ UNCHANGED <<sdkVars, localFile, fileMode>>

SyncData ==
    /\ sy.phase = "receiving"
    /\ sy.sent < Len(sy.body)
    /\ sy' = [sy EXCEPT !.sent = @ + 1, !.data = Append(@, sy.body[sy.sent + 1])]
    /\ UNCHANGED <<sdkVars, localFile, fileMode>>

\* 'end': resolve(data), then main() validates, writes, restores the mode
\* and reads the file back
SyncEnd ==
    /\ sy.phase = "receiving"
    /\ sy.sent = Len(sy.body)
    /\ \E writeOk \in BOOLEAN, newMode \in FileModes :
        LET r == MainAfterDownload(sy.data, localFile, fileMode, writeOk, newMode)
        IN  /\ (~IsValidJSON(sy.data)) => writeOk
            /\ (localFile # NoFile \/ ~writeOk \/ ~IsValidJSON(sy.data)) => newMode = 33188
            /\ localFile' = r.file
            /\ fileMode' = r.mode
            /\ sy' = [sy EXCEPT !.phase = "exited", !.outcome = r.outcome,
                                !.exit = r.exit, !.wrote = r.wrote]
    /\ UNCHANGED sdkVars

\* the request's 'error': reject, main() catches and calls process.exit(1)
SyncReqError ==
    /\ sy.phase \in {"requested", "receiving"}
    /\ sy' = [sy EXCEPT !.phase = "exited", !.outcome = "reqerror", !.exit = 1]
    /\ UNCHANGED <<sdkVars, localFile, fileMode>>

\* The connection closes before 'end'.  Either no listener runs: the
\* promise stays pending and the process ends with an empty event loop,
\* exit code 0.  Or (older Node) 'end' fires on the data received so far.
SyncClose ==
    /\ sy.phase = "receiving"
    /\ \E endFires \in BOOLEAN, writeOk \in BOOLEAN, newMode \in FileModes :
        LET r == MainAfterDownload(sy.data, localFile, fileMode, writeOk, newMode)
        IN  /\ (~endFires \/ ~IsValidJSON(sy.data)) => writeOk
            /\ (~endFires \/ localFile # NoFile \/ ~writeOk \/ ~IsValidJSON(sy.data))
                   => newMode = 33188
            /\ localFile' = IF endFires THEN r.file ELSE localFile
            /\ fileMode' = IF endFires THEN r.mode ELSE fileMode
            /\ sy' = IF endFires
                     THEN [sy EXCEPT !.phase = "exited", !.outcome = r.outcome,
                                     !.exit = r.exit, !.wrote = r.wrote,
                                     !.aborted = TRUE]
                     ELSE [sy EXCEPT !.phase = "exited", !.outcome = "hung", !.exit = 0,
                                     !.aborted = TRUE]
    /\ UNCHANGED sdkVars

----------------------------------------------------------------------------
(* Specifications *)

Init ==
    /\ impl \in Impls
    /\ env \in EnvsOf(impl)
    /\ rootFile \in (IF impl = "index" THEN {NoFile} \cup RootTexts ELSE {NoFile})
    /\ localFile \in {NoFile} \cup LocalTexts
    /\ fileMode = IF localFile = NoFile THEN 0 ELSE 33188
    /\ modPhase = "init"
    /\ localRegistry = Null
    /\ warnings = {}
    /\ handles = <<>>
    /\ ret = NoCall
    /\ fch = IdleCall
    /\ sy = IdleSync

\* the script runs on its own: the SDK module is not loaded by it
SyncInit ==
    /\ impl = "index"
    /\ env = "node-https"
    /\ rootFile = NoFile
    /\ localFile \in {NoFile} \cup LocalTexts
    /\ fileMode \in (IF localFile = NoFile THEN {0} ELSE FileModes)
    /\ modPhase = "init"
    /\ localRegistry = Null
    /\ warnings = {}
    /\ handles = <<>>
    /\ ret = NoCall
    /\ fch = IdleCall
    /\ sy = IdleSync

\* arguments of new LLMRegistry(...): a document, or nothing
CtorArgs == Docs \cup {Undefined}

\* the documents constructed while a fetch is in flight
FewCtorArgs == {Undefined, JSONparse(DocText(<<"c">>))}

\* Loading the module, constructing handles and querying them
Next ==
    \/ LoadModule
    \/ \E d \in CtorArgs : Construct(d)
    \/ \E h \in 1..(MaxHandles + 1) : CallGetProviders(h)
    \/ \E h \in 1..(MaxHandles + 1), id \in Ids : CallGetProviderModels(h, id)
    \/ \E h \in 1..(MaxHandles + 1), id \in Ids : CallGetProviderWebsite(h, id)
    \/ \E h \in 1..(MaxHandles + 1), id \in Ids : CallGetProviderAuth(h, id)

Spec == Init /\ [][Next]_vars

\* Loading the module, constructing handles and one LLMRegistry.fetch().
\* The accessors write nothing but `ret` and are left out here.
NextFetch ==
    \/ LoadModule
    \/ \E d \in FewCtorArgs : Construct(d)
    \/ FetchCall
    \/ \E st \in Statuses, body \in BodyTexts : FetchResponse(st, body)
    \/ FetchData
    \/ FetchEnd
    \/ FetchReqError
    \/ FetchClose

SpecFetch == Init /\ [][NextFetch]_vars

NextSync ==
    \/ SyncStart
    \/ \E st \in Statuses, body \in BodyTexts : SyncResponse(st, body)
    \/ SyncData
    \/ SyncEnd
    \/ SyncReqError
    \/ SyncClose

SpecSync == SyncInit /\ [][NextSync]_vars

----------------------------------------------------------------------------
(* Properties of the accessors and of construction (under Spec) *)

IdKeyed == {"getProviderModels", "getProviderWebsite", "getProviderAuth"}

\* the registry of the handle the last call was made on
RetReg == handles[ret.h].registry

\* the indices of the providers of `reg` whose id is `id`
Matches(reg, id) ==
    IF reg # Null /\ HasProviders(reg)
    THEN {i \in 1..Len(reg.providers) : reg.providers[i].id = id}
    ELSE {}

\* C1 as stated: on every handle, documentless ones included, an id-keyed
\* accessor called with an id that matches no provider of the handle's
\* document fails with the provider-not-found error.
C1_AnyHandleNotFound ==
    (ret.op \in IdKeyed /\ Matches(RetReg, ret.id) = {})
        => ret.out = Throw(ProviderNotFound(ret.id))

\* C1 amended: on every handle that holds a document with a providers
\* sequence, an id-keyed accessor called with an id that matches none of
\* the providers fails with the provider-not-found error; it never returns.
C1_NotFoundOnDocument ==
    (/\ ret.op \in IdKeyed
     /\ RetReg # Null
     /\ HasProviders(RetReg)
     /\ Matches(RetReg, ret.id) = {})
        => ret.out = Throw(ProviderNotFound(ret.id))

C1_Witness ==
    /\ ret.op = "getProviderWebsite"
    /\ RetReg # Null
    /\ HasProviders(RetReg)
    /\ Len(RetReg.providers) = 2
    /\ Matches(RetReg, ret.id) = {}
    /\ ret.out.kind = "throw"

\* C2: on a handle built without a document while the local registry file
\* is absent (registry = null), getProviders() returns an empty sequence
\* and does not throw.
C2_DocumentlessGetProviders ==
    (/\ ret.op = "getProviders"
     /\ handles[ret.h].given = Undefined
     /\ localFile = NoFile
     /\ RetReg = Null)
        => ret.out = Return(Arr(<<>>))

\* C5: getProviderModels(id) with an id that matches a provider returns
\* the models of the first matching provider in document order, or an
\* empty sequence when that provider has no models field; it never throws.
C5_ModelsOfFirstMatch ==
    (ret.op = "getProviderModels" /\ Matches(RetReg, ret.id) # {})
        => LET first == CHOOSE i \in Matches(RetReg, ret.id) :
                            \A j \in Matches(RetReg, ret.id) : i <= j
               p == RetReg.providers[first]
           IN  /\ ret.out.kind = "return"
               /\ ret.out.value.t = "array"
               /\ ret.out.value.v = (IF "models" \in DOMAIN p THEN p.models ELSE <<>>)

C5_Witness ==
    /\ ret.op = "getProviderModels"
    /\ Cardinality(Matches(RetReg, ret.id)) = 2
    /\ RetReg.providers[1].id = ret.id
    /\ ret.out = Return(Arr(<<[id |-> "gpt-4", name |-> "GPT-4"]>>))

\* the document a handle was built from: the constructor's argument, or
\* else what the local file holds
OriginOf(h) ==
    IF ~IsFalsy(handles[h].given) THEN handles[h].given
    ELSE IF localFile = NoFile THEN Null
    ELSE JSONparse(localFile)

\* C6: on a handle that holds a well-formed document, getProviders()
\* returns exactly the providers sequence of the document the handle was
\* built from, whatever accessor calls were made before.
C6_GetProvidersExact ==
    \A h \in 1..Len(handles) :
        (handles[h].registry # Null /\ HasProviders(handles[h].registry))
            => /\ HasProviders(OriginOf(h))
               /\ GetProviders(impl, handles[h].registry)
                      = Return(Arr(OriginOf(h).providers))
               /\ (ret.op = "getProviders" /\ ret.h = h)
                      => ret.out = Return(Arr(OriginOf(h).providers))

C6_Witness ==
    /\ ret.op = "getProviders"
    /\ ret.out.kind = "return"
    /\ ret.out.value.t = "array"
    /\ Len(ret.out.value.v) = 2
    /\ ret.h = 2

\* C7: a handle built with a document holds that document, whatever the
\* local registry holds; a handle built without one holds the locally
\* loaded document, which is what the local file parses to; when there is
\* none either, the handle is documentless.
C7_ConstructorPriority ==
    \A h \in 1..Len(handles) :
        LET g == handles[h].given
            r == handles[h].registry
        IN  /\ ~IsFalsy(g) => r = g
            /\ (IsFalsy(g) /\ localRegistry # Null)
                   => (r = localRegistry /\ r = JSONparse(localFile))
            /\ (IsFalsy(g) /\ localRegistry = Null) => r = Null

C7_Witness ==
    /\ Len(handles) = 2
    /\ localRegistry # Null
    /\ ~IsFalsy(handles[2].given)
    /\ handles[2].registry # localRegistry
    /\ handles[1].registry = localRegistry

\* the local file was there when the module loaded and is not JSON
\* (a browser or bare runtime does not read it)
MalformedLocalFile ==
    /\ modPhase = "loaded"
    /\ (impl = "index" \/ IsNode(env))
    /\ localFile # NoFile
    /\ JSONparse(localFile) = SyntaxError

\* C8 as stated: the module does not finish loading normally, with a
\* documentless registry, when the local file is malformed.
C8_ParseErrorSurfaced ==
    ~(MalformedLocalFile /\ localRegistry = Null)

\* C8 amended: with a malformed local file the parse error is caught in the
\* module body: localRegistry is null, the module finishes loading and
\* exports a documentless default handle, warning that no registry was
\* found; index.js also logs the failure, the fetch/https variant does not.
C8_ParseErrorSwallowed ==
    MalformedLocalFile
        => /\ localRegistry = Null
           /\ handles[1].registry = Null
           /\ "no-registry" \in warnings
           /\ ("load-failed" \in warnings) <=> (impl = "index")

C8_Witness ==
    /\ MalformedLocalFile
    /\ impl = "index"
    /\ rootFile # NoFile
    /\ localFile = rootFile
    /\ "load-failed" \in warnings

----------------------------------------------------------------------------
(* Properties of LLMRegistry.fetch() (under SpecFetch) *)

Settled == fch.promise \in {"resolved", "rejected"}

RejectedWith(cause) == fch.promise = "rejected" /\ fch.value.cause = cause

\* C3: fetch() resolves only on a success status; once a response with a
\* non-success status has been received to its end the promise is rejected
\* with the HTTP status error, whatever the body; a connection failure
\* rejects with the network error.
C3_ResolvesOnlyOnSuccess ==
    /\ fch.promise = "resolved" => IsOk(fch.status)
    /\ (fch.phase = "ended" /\ ~IsOk(fch.status)) => RejectedWith("http")
    /\ (fch.phase = "errored" /\ fch.status = 0 /\ FetchPath(impl, env) # "unsupported")
           => RejectedWith("network")

\* the step in which a body that is not well-formed JSON has been received
\* to its end
EndOfMalformedBody ==
    /\ fch.phase \in {"receiving", "discarding"}
    /\ fch'.phase = "ended"
    /\ JSONparse(fch.body) = SyntaxError

FetchFrame == localRegistry' = localRegistry /\ handles' = handles

\* C4 as stated: when the body is not well-formed JSON the promise rejects
\* with a parse error, and localRegistry and every existing handle are
\* left as they were.
C4_MalformedRejectsParse ==
    [][EndOfMalformedBody
          => (fch'.promise = "rejected" /\ fch'.value.cause = "parse" /\ FetchFrame)]_vars

\* C4 amended: no step of a fetch() changes localRegistry or an existing
\* handle; when the body is not well-formed JSON the promise is rejected,
\* with the parse error if the body was read, and with the HTTP status
\* error if the response had already been refused for its status (the
\* fetch/https variant, which then never parses the body).
C4_MalformedRejectsUnchanged ==
    [][/\ (fch' # fch) => FetchFrame
       /\ EndOfMalformedBody
             => /\ fch'.promise = "rejected"
                /\ (fch.phase = "receiving") => (fch'.value.cause = "parse")
                /\ (fch.phase = "discarding") => (fch'.value.cause = "http")]_vars

C4_Witness ==
    /\ fch.phase = "ended"
    /\ JSONparse(fch.body) = SyntaxError
    /\ Len(fch.body) = 2
    /\ RejectedWith("parse")
    /\ localRegistry # Null
    /\ Len(handles) = 2
    /\ handles[1].registry = localRegistry

\* C9: once the events of the response are over (it ended, the request
\* failed, or the connection closed before the end) the promise is settled,
\* resolve/reject took effect once, and a delivered handle was built from
\* the whole body.
C9_ExactlyOneOutcome ==
    /\ fch.phase \in {"ended", "closed", "errored"} => Settled
    /\ fch.promise = "resolved" => (fch.data = fch.body /\ fch.value.given = JSONparse(fch.body))

----------------------------------------------------------------------------
(* Properties of the sync script (under SpecSync) *)

====
